---- MODULE Spec2Model ----
(***************************************************************************)
(* Model of ranking.py: the five tie-resolution strategies and the         *)
(* generator Ranking.__iter__, one action per step of the generator.       *)
(*                                                                         *)
(* Ranks are exact rationals <<numerator, denominator>> in lowest terms,   *)
(* so that the true division of FRACTIONAL is computed and not rounded.    *)
(***************************************************************************)
EXTENDS Integers, Sequences, FiniteSets, TLC

\* ------------------------------------------------------------------ bounds
MaxLen == 4          \* longest input sequence
MaxScore == 2        \* scores are None or 0..MaxScore
MaxStart == 1        \* start ranks are 0..MaxStart
MaxArgLen == 5       \* longest length handed to a strategy on its own
MaxArgStart == 3     \* largest start handed to a strategy on its own
MaxLenTwo == 3       \* longest input sequence of two interleaved iterations
MaxWideStart == 5    \* start ranks of the wide specification are 0..MaxWideStart

\* ------------------------------------------------- python values and ranks
None == -1           \* a None score / a None item
Final == -2          \* the sentinel object appended after the last item
NoRank == <<0, 0>>   \* None where a rank is expected

RECURSIVE GCD(_, _)
GCD(a, b) == IF b = 0 THEN a ELSE GCD(b, a % b)

\* the number n / d, d > 0, n >= 0
Frac(n, d) == LET g == GCD(n, d) IN <<n \div g, d \div g>>

\* an integer rank
IntRank(n) == <<n, 1>>

\* r + k for a rank r and an integer k
RankPlus(r, k) == Frac(r[1] + k * r[2], r[2])

\* ---------------------------------------------------------------- strategies
COMPETITION_swapped(start, length) ==
    [x \in 1..(length + 1) |-> IF x <= length THEN RankPlus(start, length - 1)
                                ELSE RankPlus(start, length)]

COMPETITION(start, length) ==
    [x \in 1..(length + 1) |-> IF x <= length THEN start
                                ELSE RankPlus(start, length)]

MODIFIED_COMPETITION_low(start, length) ==
    [x \in 1..(length + 1) |-> IF x <= length THEN start
                                ELSE RankPlus(start, length)]

MODIFIED_COMPETITION(start, length) ==
    [x \in 1..(length + 1) |-> IF x <= length THEN RankPlus(start, length - 1)
                                ELSE RankPlus(start, length)]

DENSE_gap(start, length) ==
    [x \in 1..(length + 1) |-> IF x <= length THEN start
                                ELSE RankPlus(start, length)]

DENSE(start, length) ==
    [x \in 1..(length + 1) |-> IF x <= length THEN start
                                ELSE RankPlus(start, 1)]

ORDINAL_short(start, length) ==
    [x \in 1..length |-> RankPlus(start, x - 1)]

ORDINAL_flat(start, length) ==
    [x \in 1..(length + 1) |-> IF x <= length THEN start
                                ELSE RankPlus(start, length)]

ORDINAL(start, length) ==
    [x \in 1..(length + 1) |-> RankPlus(start, x - 1)]

\* avg = (2 * start + length - 1) / float(length)
FRACTIONAL(start, length) ==
    LET avg == Frac(2 * start[1] + (length - 1) * start[2], start[2] * length)
    IN  [x \in 1..(length + 1) |-> IF x <= length THEN avg
                                    ELSE RankPlus(start, length)]

Strategies == {"COMPETITION", "MODIFIED_COMPETITION", "DENSE", "ORDINAL",
               "FRACTIONAL"}

\* self.strategy(start, length), as the list of everything it yields
Strategy(name, start, length) ==
    CASE name = "COMPETITION" -> COMPETITION(start, length)
      [] name = "MODIFIED_COMPETITION" -> MODIFIED_COMPETITION(start, length)
      [] name = "DENSE" -> DENSE(start, length)
      [] name = "ORDINAL" -> ORDINAL(start, length)
      [] name = "FRACTIONAL" -> FRACTIONAL(start, length)

\* --------------------------------------------------------------- comparators
\* the builtin cmp of Python 2 on integers and None: None sorts before
\* every number
PyCmp(a, b) ==
    IF a = b THEN 0
    ELSE IF a = None THEN -1
    ELSE IF b = None THEN 1
    ELSE IF a < b THEN -1 ELSE 1

\* a caller's comparator for ascending scores: lambda a, b: cmp(b, a)
ReverseCmp(a, b) == PyCmp(b, a)

Comparators == {"cmp", "reverse"}


\* ------------------------------------------------------------ configuration
VARIABLES
    sequence,      \* self.sequence: the items in input order
    strategy,      \* self.strategy: the name of a built-in strategy
    start,         \* self.start
    cmp,           \* self.cmp: "cmp" or "reverse"
    key,           \* self.key: "None" or "score"
    scores,        \* the score of the item at each input position
\* ------------------------------------- locals of each running __iter__
    pc,            \* where the generator stands
    rank,
    drawn,
    tie_started,
    nread,         \* how many items `iterator` has handed out
    right,
    right_score,
    gen,           \* what self.strategy(...) has still to yield
    out,           \* the pairs yielded so far
    cmp_args,      \* the arguments of every call of self.cmp so far
    calls,         \* <<start, length, len(out)>> of every call of
                   \* self.strategy so far
    raised,        \* the exception the generator ended with, if any
\* ------------------------------------------- a strategy called on its own
    call,          \* <<name, start, length>>
    result         \* what list(strategy(start, length)) returned

config == <<sequence, strategy, start, cmp, key, scores>>
locals == <<pc, rank, drawn, tie_started, nread, right, right_score, gen,
            out, cmp_args, calls, raised>>
direct == <<call, result>>
vars == <<config, locals, direct>>

Iterators == {1, 2}

Scores == {None} \cup (0..MaxScore)

ScoreSeqs == UNION {[1..n -> Scores] : n \in 0..MaxLen}

\* right if self.key is None else self.key(right); the items of a keyed
\* sequence are 1..n and the key looks the score of an item up
Score(v) == IF key = "None" THEN v ELSE scores[v]

\* self.cmp(a, b)
Cmp(a, b) == IF cmp = "cmp" THEN PyCmp(a, b) ELSE ReverseCmp(a, b)

\* no generator started
InitLocals ==
    /\ pc = [i \in Iterators |-> "start"]
    /\ rank = [i \in Iterators |-> NoRank]
    /\ drawn = [i \in Iterators |-> <<>>]
    /\ tie_started = [i \in Iterators |-> NoRank]
    /\ nread = [i \in Iterators |-> 0]
    /\ right = [i \in Iterators |-> None]
    /\ right_score = [i \in Iterators |-> None]
    /\ gen = [i \in Iterators |-> <<>>]
    /\ out = [i \in Iterators |-> <<>>]
    /\ cmp_args = [i \in Iterators |-> <<>>]
    /\ calls = [i \in Iterators |-> <<>>]
    /\ raised = [i \in Iterators |-> "None"]

\* Ranking.__init__, and no generator started
InitRanking ==
    /\ scores \in ScoreSeqs
    /\ key \in {"None", "score"}
    /\ sequence = IF key = "None" THEN scores
                  ELSE [p \in 1..Len(scores) |-> p]
    /\ strategy \in Strategies
    /\ start \in 0..MaxStart
    /\ cmp \in Comparators
    /\ InitLocals

Init ==
    /\ InitRanking
    /\ call = <<>>
    /\ result = <<>>

\* ------------------------------------------------------ Ranking.__iter__
Start_leak(i) ==
    /\ pc[i] = "start"
    /\ rank' = [rank EXCEPT ![i] = IntRank(start)]
    /\ drawn' = [drawn EXCEPT ![i] = <<>>]
    /\ tie_started' = [tie_started EXCEPT ![i] = NoRank]
    /\ IF Len(sequence) = 0
       THEN /\ pc' = [pc EXCEPT ![i] = "raised"]
            /\ raised' = [raised EXCEPT ![i] = "RuntimeError"]
            /\ UNCHANGED <<nread, right, right_score>>
       ELSE /\ pc' = [pc EXCEPT ![i] = "loop"]
            /\ nread' = [nread EXCEPT ![i] = 1]
            /\ right' = [right EXCEPT ![i] = sequence[1]]
            /\ right_score' = [right_score EXCEPT ![i] = Score(sequence[1])]
            /\ UNCHANGED raised
    /\ UNCHANGED <<config, direct, calls, gen, out, cmp_args>>

\* lines 102-105: the locals, the iterator and the first item
Start(i) ==
    /\ pc[i] = "start"
    /\ rank' = [rank EXCEPT ![i] = IntRank(start)]
    /\ drawn' = [drawn EXCEPT ![i] = <<>>]
    /\ tie_started' = [tie_started EXCEPT ![i] = NoRank]
    /\ IF Len(sequence) = 0
       THEN \* iterator.next() raises StopIteration, which ends the generator
            /\ pc' = [pc EXCEPT ![i] = "done"]
            /\ UNCHANGED <<nread, right, right_score>>
       ELSE /\ pc' = [pc EXCEPT ![i] = "loop"]
            /\ nread' = [nread EXCEPT ![i] = 1]
            /\ right' = [right EXCEPT ![i] = sequence[1]]
            /\ right_score' = [right_score EXCEPT ![i] = Score(sequence[1])]
    /\ UNCHANGED <<config, direct, calls, gen, out, cmp_args, raised>>

HasValue_nofinal(i) == nread[i] < Len(sequence)

\* itertools.chain(iterator, [final]) has a next value
HasValue(i) == nread[i] < Len(sequence) \/ right[i] # Final

Value_shared(i) ==
    LET n == nread[1] + nread[2]
    IN  IF nread[i] < Len(sequence) /\ n < Len(sequence) THEN sequence[n + 1]
        ELSE Final

\* the next value of itertools.chain(iterator, [final])
Value(i) == IF nread[i] < Len(sequence) THEN sequence[nread[i] + 1] ELSE Final

Shift_prefetch(i) ==
    /\ pc[i] = "loop"
    /\ HasValue(i)
    /\ nread' = [nread EXCEPT ![i] =
                    IF @ + 1 < Len(sequence) THEN @ + 2
                    ELSE IF @ < Len(sequence) THEN @ + 1 ELSE @]
    /\ right' = [right EXCEPT ![i] = Value(i)]
    /\ right_score' = [right_score EXCEPT ![i] =
                          IF Value(i) # Final THEN Score(Value(i)) ELSE @]

\* lines 107-110: the shift of right into left and the new right
Shift(i) ==
    /\ pc[i] = "loop"
    /\ HasValue(i)
    /\ nread' = [nread EXCEPT ![i] =
                    IF @ < Len(sequence) THEN @ + 1 ELSE @]
    /\ right' = [right EXCEPT ![i] = Value(i)]
    /\ right_score' = [right_score EXCEPT ![i] =
                          IF Value(i) # Final THEN Score(Value(i)) ELSE @]

\* line 117 is reached: left has a score and value is not final
Compares(i) == right_score[i] # None /\ Value(i) # Final

Compared_swapped(i) ==
    IF Value(i) = Final THEN 1
    ELSE Cmp(Score(Value(i)), right_score[i])

\* lines 114-117: compared, for a left that has a score
Compared(i) ==
    IF Value(i) = Final THEN 1
    ELSE Cmp(right_score[i], Score(Value(i)))

\* the record of the call of self.cmp at line 117
Record(i) ==
    cmp_args' = [cmp_args EXCEPT ![i] =
                    IF Compares(i)
                    THEN Append(@, <<right_score[i], Score(Value(i))>>)
                    ELSE @]

\* lines 111-113: an item without a score is yielded unranked
YieldNone(i) ==
    /\ Shift(i)
    /\ right_score[i] = None
    /\ out' = [out EXCEPT ![i] = Append(@, <<NoRank, right[i]>>)]
    /\ UNCHANGED <<config, direct, calls, pc, rank, drawn, tie_started, gen,
                   cmp_args, raised>>

\* lines 118-119
RaiseNotSorted(i) ==
    /\ Shift(i)
    /\ right_score[i] # None
    /\ Compared(i) < 0
    /\ Record(i)
    /\ pc' = [pc EXCEPT ![i] = "raised"]
    /\ raised' = [raised EXCEPT ![i] = "ValueError"]
    /\ UNCHANGED <<config, direct, calls, rank, drawn, tie_started, gen, out>>

TieStart_unset(ts, r) == ts

\* lines 121-122: the rank at which a tie group starts
TieStart(ts, r) == IF ts = NoRank THEN r ELSE ts

\* lines 120-124: left ties with right and is buffered
Tie(i) ==
    /\ Shift(i)
    /\ right_score[i] # None
    /\ Compared(i) = 0
    /\ Record(i)
    /\ tie_started' = [tie_started EXCEPT ![i] = TieStart(@, rank[i])]
    /\ drawn' = [drawn EXCEPT ![i] = Append(@, right[i])]
    /\ UNCHANGED <<config, direct, calls, pc, rank, gen, out, raised>>

\* line 52: the division of FRACTIONAL by a length of 0
StrategyFails(name, length) == name = "FRACTIONAL" /\ length = 0

\* lines 125-127: left closes the tie group and the strategy is called
BeginFlush(i) ==
    /\ Shift(i)
    /\ right_score[i] # None
    /\ Compared(i) > 0
    /\ drawn[i] # <<>>
    /\ Record(i)
    /\ drawn' = [drawn EXCEPT ![i] = Append(@, right[i])]
    /\ calls' = [calls EXCEPT ![i] =
                    Append(@, <<tie_started[i], Len(drawn[i]) + 1,
                                Len(out[i])>>)]
    /\ IF StrategyFails(strategy, Len(drawn[i]) + 1)
       THEN /\ raised' = [raised EXCEPT ![i] = "ZeroDivisionError"]
            /\ pc' = [pc EXCEPT ![i] = "raised"]
            /\ UNCHANGED gen
       ELSE /\ gen' = [gen EXCEPT ![i] =
                         Strategy(strategy, tie_started[i],
                                  Len(drawn[i]) + 1)]
            /\ pc' = [pc EXCEPT ![i] = "flush"]
            /\ UNCHANGED raised
    /\ UNCHANGED <<config, direct, rank, tie_started, out>>

Pop_last(d) == <<d[Len(d)], SubSeq(d, 1, Len(d) - 1)>>

\* drawn.pop(0): the item popped and the list left
Pop(d) == <<Head(d), Tail(d)>>

\* lines 127-129: the strategy's next rank goes to the oldest drawn item
FlushYield(i) ==
    /\ pc[i] = "flush"
    /\ gen[i] # <<>>
    /\ drawn[i] # <<>>
    /\ rank' = [rank EXCEPT ![i] = Head(gen[i])]
    /\ gen' = [gen EXCEPT ![i] = Tail(@)]
    /\ out' = [out EXCEPT ![i] = Append(@, <<Head(gen[i]), Pop(drawn[i])[1]>>)]
    /\ drawn' = [drawn EXCEPT ![i] = Pop(@)[2]]
    /\ UNCHANGED <<config, direct, calls, pc, tie_started, nread, right,
                   right_score, cmp_args, raised>>

FlushPass_norank(i) ==
    /\ pc[i] = "flush"
    /\ gen[i] # <<>>
    /\ drawn[i] = <<>>
    /\ gen' = [gen EXCEPT ![i] = Tail(@)]
    /\ UNCHANGED <<config, direct, calls, pc, rank, drawn, tie_started,
                   nread, right, right_score, out, cmp_args, raised>>

\* lines 127-131: a rank of the strategy for which no drawn item is left;
\* drawn.pop(0) raises IndexError and nothing is yielded
FlushPass(i) ==
    /\ pc[i] = "flush"
    /\ gen[i] # <<>>
    /\ drawn[i] = <<>>
    /\ rank' = [rank EXCEPT ![i] = Head(gen[i])]
    /\ gen' = [gen EXCEPT ![i] = Tail(@)]
    /\ UNCHANGED <<config, direct, calls, pc, drawn, tie_started, nread, right,
                   right_score, out, cmp_args, raised>>

\* lines 132-133: the strategy is exhausted
EndFlush(i) ==
    /\ pc[i] = "flush"
    /\ gen[i] = <<>>
    /\ tie_started' = [tie_started EXCEPT ![i] = NoRank]
    /\ pc' = [pc EXCEPT ![i] = "loop"]
    /\ UNCHANGED <<config, direct, calls, rank, drawn, nread, right, right_score,
                   gen, out, cmp_args, raised>>

\* line 134: an untied item is yielded with the rank counter
Emit(i) ==
    /\ Shift(i)
    /\ right_score[i] # None
    /\ Compared(i) > 0
    /\ drawn[i] = <<>>
    /\ Record(i)
    /\ out' = [out EXCEPT ![i] = Append(@, <<rank[i], right[i]>>)]
    /\ pc' = [pc EXCEPT ![i] = "yielded"]
    /\ UNCHANGED <<config, direct, calls, rank, drawn, tie_started, gen, raised>>

Increment_stuck(r) == r

\* rank += 1
Increment(r) == RankPlus(r, 1)

\* line 135: the generator resumes after the yield of line 134
Resume(i) ==
    /\ pc[i] = "yielded"
    /\ rank' = [rank EXCEPT ![i] = Increment(@)]
    /\ pc' = [pc EXCEPT ![i] = "loop"]
    /\ UNCHANGED <<config, direct, calls, drawn, tie_started, nread, right,
                   right_score, gen, out, cmp_args, raised>>

\* line 106: the chain is exhausted and the generator returns
Finish(i) ==
    /\ pc[i] = "loop"
    /\ ~HasValue(i)
    /\ pc' = [pc EXCEPT ![i] = "done"]
    /\ UNCHANGED <<config, direct, calls, rank, drawn, tie_started, nread, right,
                   right_score, gen, out, cmp_args, raised>>

Step(i) ==
    \/ Start(i)
    \/ YieldNone(i)
    \/ RaiseNotSorted(i)
    \/ Tie(i)
    \/ BeginFlush(i)
    \/ FlushYield(i)
    \/ FlushPass(i)
    \/ EndFlush(i)
    \/ Emit(i)
    \/ Resume(i)
    \/ Finish(i)

\* one iteration of a Ranking
Next == Step(1)

Spec == Init /\ [][Next]_vars

\* a Ranking with the default start rank
InitFair ==
    /\ Init
    /\ start = 0

\* one iteration whose consumer keeps calling next(), as list() does in
\* Ranking.ranks and Ranking.values
FairSpec == InitFair /\ [][Next]_vars /\ WF_vars(Next)

\* one iteration of a Ranking of bare scores under the default comparator,
\* from a wider range of start ranks
InitWide ==
    /\ scores \in ScoreSeqs
    /\ key = "None"
    /\ sequence = scores
    /\ strategy \in Strategies
    /\ start \in 0..MaxWideStart
    /\ cmp = "cmp"
    /\ InitLocals
    /\ call = <<>>
    /\ result = <<>>

SpecWide == InitWide /\ [][Next]_vars

\* two iterations of one Ranking, their next() calls interleaved
InitTwo ==
    /\ Init
    /\ Len(scores) <= MaxLenTwo
    /\ start = 0

NextTwo == \E i \in Iterators : Step(i)

SpecTwo == InitTwo /\ [][NextTwo]_vars

\* ----------------------------------------------------- derived views
\* Ranking.iterranks / ranks of the iteration i
ranks(i) == [p \in 1..Len(out[i]) |-> out[i][p][1]]

\* Ranking.itervalues / values of the iteration i
values(i) == [p \in 1..Len(out[i]) |-> out[i][p][2]]


\* ------------------------------------------- a strategy called on its own
InitStrategy ==
    /\ InitRanking
    /\ scores = <<>>
    /\ key = "None"
    /\ strategy = "COMPETITION"
    /\ start = 0
    /\ cmp = "cmp"
    /\ call \in Strategies \X (0..MaxArgStart) \X (1..MaxArgLen)
    /\ result = <<>>

\* list(strategy(start, length))
CallStrategy ==
    /\ call # <<>>
    /\ result = <<>>
    /\ result' = Strategy(call[1], IntRank(call[2]), call[3])
    /\ UNCHANGED <<config, locals, call>>

NextStrategy == CallStrategy

SpecStrategy == InitStrategy /\ [][NextStrategy]_vars

\* =================================================================== claims
Done == pc[1] = "done"
Natural == cmp = "cmp"
NoNone == \A p \in 1..Len(scores) : scores[p] # None
SortedSeq(sc) == \A p \in 1..(Len(sc) - 1) : sc[p] >= sc[p + 1]
Decreasing(sc) == \A p \in 1..(Len(sc) - 1) : sc[p] > sc[p + 1]
Complete == Len(out[1]) = Len(sequence)
RankAt(p) == out[1][p][1]

\* the input positions whose score is higher than, or the same as, that of p
Above(sc, p) == {q \in 1..Len(sc) : sc[q] > sc[p]}
Same(sc, p) == {q \in 1..Len(sc) : sc[q] = sc[p]}

\* C1: on a strictly decreasing input without None scores the ranks emitted
\* are start, start + 1, start + 2, ... in input order, whatever the
\* strategy, and every item has been emitted when the iteration is done.
C1_NoTies ==
    (Natural /\ NoNone /\ Decreasing(scores)) =>
        /\ \A p \in 1..Len(out[1]) : RankAt(p) = IntRank(start + p - 1)
        /\ Done => Complete

C1_Witness ==
    /\ Done /\ Natural /\ NoNone /\ Decreasing(scores)
    /\ Len(scores) = 3 /\ start = 1 /\ strategy = "FRACTIONAL"
    /\ ranks(1) = <<IntRank(1), IntRank(2), IntRank(3)>>

\* C2: with COMPETITION every item of a sorted input without None scores
\* gets start + the number of items with a strictly higher score.
C2_Competition ==
    (strategy = "COMPETITION" /\ Natural /\ NoNone /\ SortedSeq(scores)) =>
        /\ \A p \in 1..Len(out[1]) :
              RankAt(p) = IntRank(start + Cardinality(Above(scores, p)))
        /\ Done => Complete

\* tie groups at the beginning and at the end, one after the other
C2_Witness ==
    /\ Done /\ Natural /\ strategy = "COMPETITION" /\ start = 0
    /\ scores = <<2, 2, 1, 1>>
    /\ ranks(1) = <<IntRank(0), IntRank(0), IntRank(2), IntRank(2)>>

\* C3: with DENSE every item of a sorted input without None scores gets
\* start + the number of distinct scores strictly higher than its own.
C3_Dense ==
    (strategy = "DENSE" /\ Natural /\ NoNone /\ SortedSeq(scores)) =>
        /\ \A p \in 1..Len(out[1]) :
              RankAt(p) = IntRank(start + Cardinality(
                              {scores[q] : q \in Above(scores, p)}))
        /\ Done => Complete

C3_Witness ==
    /\ Done /\ Natural /\ strategy = "DENSE" /\ start = 0
    /\ scores = <<2, 1, 1, 0>>
    /\ ranks(1) = <<IntRank(0), IntRank(1), IntRank(1), IntRank(2)>>

\* C4: with MODIFIED_COMPETITION every item of a sorted input without None
\* scores gets start + the number of items with a score greater than or
\* equal to its own - 1.
C4_ModifiedCompetition ==
    (strategy = "MODIFIED_COMPETITION" /\ Natural /\ NoNone
        /\ SortedSeq(scores)) =>
        /\ \A p \in 1..Len(out[1]) :
              RankAt(p) = IntRank(start + Cardinality(Above(scores, p))
                                  + Cardinality(Same(scores, p)) - 1)
        /\ Done => Complete

C4_Witness ==
    /\ Done /\ Natural /\ strategy = "MODIFIED_COMPETITION" /\ start = 0
    /\ scores = <<2, 1, 1, 0>>
    /\ ranks(1) = <<IntRank(0), IntRank(2), IntRank(2), IntRank(3)>>

\* C5: with ORDINAL the item at 0-based input position i of a sorted input
\* without None scores gets start + i, tied or not.
C5_Ordinal ==
    (strategy = "ORDINAL" /\ Natural /\ NoNone /\ SortedSeq(scores)) =>
        /\ \A p \in 1..Len(out[1]) : RankAt(p) = IntRank(start + p - 1)
        /\ Done => Complete

C5_Witness ==
    /\ Done /\ Natural /\ strategy = "ORDINAL" /\ start = 0
    /\ scores = <<2, 1, 1, 1>>
    /\ ranks(1) = <<IntRank(0), IntRank(1), IntRank(2), IntRank(3)>>

\* C6: with FRACTIONAL every item of a tie group of n >= 2 items at 0-based
\* positions i..i+n-1 of a sorted input without None scores gets the mean of
\* start+i, ..., start+i+n-1, that is 2 * rank = 2 * (start + i) + n - 1,
\* and an untied item gets start + its position.
C6_FractionalMean ==
    (strategy = "FRACTIONAL" /\ Natural /\ NoNone /\ SortedSeq(scores)) =>
        \A p \in 1..Len(out[1]) :
            LET i == Cardinality(Above(scores, p))
                n == Cardinality(Same(scores, p))
            IN  IF n >= 2
                THEN 2 * RankAt(p)[1] = RankAt(p)[2] * (2 * (start + i) + n - 1)
                ELSE RankAt(p) = IntRank(start + p - 1)

\* C7: each strategy yields length + 1 values: length times the tied rank
\* of the strategy table, then the next rank.
C7_StrategyValues ==
    result # <<>> =>
        LET name == call[1]
            s == call[2]
            length == call[3]
        IN  /\ Len(result) = length + 1
            /\ result[length + 1] = IF name = "DENSE" THEN IntRank(s + 1)
                                    ELSE IntRank(s + length)
            /\ \A x \in 1..length :
                  CASE name = "COMPETITION" -> result[x] = IntRank(s)
                    [] name = "MODIFIED_COMPETITION" ->
                           result[x] = IntRank(s + length - 1)
                    [] name = "DENSE" -> result[x] = IntRank(s)
                    [] name = "ORDINAL" -> result[x] = IntRank(s + x - 1)
                    [] name = "FRACTIONAL" ->
                           /\ result[x][2] > 0
                           /\ result[x][1] * length
                                 = result[x][2] * (2 * s + length - 1)

C7_Witness ==
    /\ call = <<"FRACTIONAL", 1, 2>>
    /\ result = <<<<3, 2>>, <<3, 2>>, <<3, 1>>>>

\* C8: the values yielded so far are a prefix of the input sequence, the
\* ranks are the ranks of the same pairs, and a completed iteration has
\* yielded the whole sequence.
C8_ValuesPrefix ==
    /\ Len(out[1]) <= Len(sequence)
    /\ values(1) = SubSeq(sequence, 1, Len(out[1]))
    /\ \A p \in 1..Len(out[1]) : out[1][p] = <<ranks(1)[p], values(1)[p]>>
    /\ Done => values(1) = sequence

\* an unranked item between a tie group and another, all yielded
C8_Witness ==
    /\ Done /\ Natural /\ key = "score"
    /\ scores = <<1, 1, None, 0>>
    /\ values(1) = <<1, 2, 3, 4>>


\* the scores of sc that are not None, in order
RECURSIVE Ranked(_)
Ranked(sc) ==
    IF sc = <<>> THEN <<>>
    ELSE IF Head(sc) = None THEN Ranked(Tail(sc))
    ELSE <<Head(sc)>> \o Ranked(Tail(sc))

\* the position in Ranked(sc) of the item at position p of sc
RankedIndex(sc, p) == Len(Ranked(SubSeq(sc, 1, p)))

\* the rank the strategy `name` gives position p of the sorted sequence sc
\* of scores without None, from start rank s
ExpectedRank(name, sc, p, s) ==
    LET i == Cardinality(Above(sc, p))
        n == Cardinality(Same(sc, p))
    IN  CASE name = "COMPETITION" -> IntRank(s + i)
          [] name = "MODIFIED_COMPETITION" -> IntRank(s + i + n - 1)
          [] name = "DENSE" ->
                 IntRank(s + Cardinality({sc[q] : q \in Above(sc, p)}))
          [] name = "ORDINAL" -> IntRank(s + p - 1)
          [] name = "FRACTIONAL" ->
                 IF n = 1 THEN IntRank(s + i)
                 ELSE Frac(2 * (s + i) + n - 1, n)

\* The ranks of an input without None scores, for every strategy: what
\* ExpectedRank says.
RanksWithoutNone ==
    (Natural /\ NoNone /\ SortedSeq(scores)) =>
        /\ \A p \in 1..Len(out[1]) :
              RankAt(p) = ExpectedRank(strategy, scores, p, start)
        /\ Done => Complete

\* C9: an item without a score is yielded as (None, value), and the items
\* with a score get the ranks they get when the items without a score are
\* taken out of the input.
C9_NoneTransparent ==
    (Natural /\ SortedSeq(Ranked(scores))) =>
        /\ \A p \in 1..Len(out[1]) :
              IF scores[p] = None
              THEN out[1][p] = <<NoRank, sequence[p]>>
              ELSE RankAt(p) = ExpectedRank(strategy, Ranked(scores),
                                            RankedIndex(scores, p), start)
        /\ Done => Complete

\* the input is sorted under the comparator once the None scores are
\* taken out
SortedApartFromNone ==
    \A p \in 1..(Len(Ranked(scores)) - 1) :
        Cmp(Ranked(scores)[p], Ranked(scores)[p + 1]) >= 0

\* C10: the comparator is never applied to a None score, on either side,
\* and an input that is sorted apart from its None scores never raises.
C10_NoneNotCompared ==
    /\ \A k \in 1..Len(cmp_args[1]) :
          cmp_args[1][k][1] # None /\ cmp_args[1][k][2] # None
    /\ SortedApartFromNone => raised[1] = "None"


\* the comparator reports the score at position p as less than the score
\* that follows it
Unsorted(p) == scores[p] # None /\ Cmp(scores[p], scores[p + 1]) < 0

\* C11: the iteration has raised the ordering error if and only if it has
\* reached an adjacent pair whose left score is not None and is less than
\* the right score under the comparator; it stops at the first such pair,
\* and nothing is raised before the generator runs.
C11_RaisesIffUnsortedPair ==
    /\ pc[1] = "start" => raised[1] = "None"
    /\ raised[1] = "ValueError" <=>
          \E p \in 1..(nread[1] - 1) : Unsorted(p)
    /\ \A p \in 1..(nread[1] - 1) :
          Unsorted(p) => pc[1] = "raised" /\ nread[1] = p + 1

C11_Witness ==
    /\ raised[1] = "ValueError" /\ pc[1] = "raised" /\ Natural
    /\ scores = <<2, 1, 2, 0>>
    /\ nread[1] = 3
    /\ Len(out[1]) = 1

\* the iteration has ended, normally or with an exception
Ended == pc[1] \in {"done", "raised"}

\* C12: an input in which a ranked item is followed later, adjacent or not,
\* by a ranked item that the comparator puts before it, is never iterated to
\* completion: the iteration ends with the ordering error.
C12_NoSilentDisorder ==
    (Ended /\ ~SortedApartFromNone) => raised[1] = "ValueError"

\* C13: an empty input ends the iteration normally with nothing yielded.
C13_EmptyInput ==
    Len(sequence) = 0 =>
        /\ out[1] = <<>>
        /\ raised[1] = "None"
        /\ pc[1] \in {"start", "done"}

C13_Witness ==
    /\ Done /\ sequence = <<>> /\ out[1] = <<>> /\ raised[1] = "None"
    /\ strategy = "FRACTIONAL" /\ start = 1


\* the locals of the iteration j
LocalsOf(j) ==
    <<pc[j], rank[j], drawn[j], tie_started[j], nread[j], right[j],
      right_score[j], gen[j], out[j], cmp_args[j], calls[j], raised[j]>>

\* what two iterations have yielded agrees as far as both have got, and
\* two iterations that have ended have ended the same way
Agree ==
    \A i, j \in Iterators :
        /\ Len(out[i]) <= Len(out[j]) =>
              out[i] = SubSeq(out[j], 1, Len(out[i]))
        /\ (pc[i] \in {"done", "raised"} /\ pc[j] \in {"done", "raised"}) =>
              /\ out[i] = out[j]
              /\ pc[i] = pc[j]
              /\ raised[i] = raised[j]
        /\ pc[i] \in {"done", "raised"} => Len(out[j]) <= Len(out[i])

\* C14: iterations over one Ranking are independent: a step of one
\* iteration changes neither the Ranking nor the locals of the other
\* iteration, and however the steps of the two are interleaved they yield
\* the same pairs and end the same way, a lone iteration (the other not
\* started, or abandoned part-way) included.
C14_Independent ==
    [][/\ config' = config
       /\ \E i \in Iterators :
             \A j \in Iterators \ {i} : LocalsOf(j)' = LocalsOf(j)
       /\ Agree']_vars

\* the first iteration abandoned inside a tie group, the second complete
C14_Witness ==
    /\ scores = <<1, 1, 0>> /\ Natural /\ strategy = "MODIFIED_COMPETITION"
    /\ pc[1] = "flush" /\ Len(out[1]) = 1
    /\ pc[2] = "done" /\ Len(out[2]) = 3
    /\ out[1] = SubSeq(out[2], 1, 1)


\* C15: an iteration ends normally or with the ordering error and with
\* nothing else: the strategy is only called with a length of at least 1
\* (FRACTIONAL never divides by 0) and with a number as its start, which a
\* non-empty tie buffer always has.
C15_OnlyOrderingError ==
    /\ raised[1] \in {"None", "ValueError"}
    /\ pc[1] = "raised" <=> raised[1] = "ValueError"
    /\ drawn[1] # <<>> /\ pc[1] # "flush" => tie_started[1] # NoRank
    /\ \A k \in 1..Len(calls[1]) :
          /\ calls[1][k][1] # NoRank
          /\ calls[1][k][2] >= 1
          /\ ~StrategyFails(strategy, calls[1][k][2])

\* FRACTIONAL called for two tie groups, and the iteration complete
C15_Witness ==
    /\ Done /\ strategy = "FRACTIONAL" /\ raised[1] = "None"
    /\ scores = <<1, 1, 0, 0>>
    /\ calls[1] = <<<<IntRank(start), 2, 0>>, <<IntRank(start + 2), 2, 2>>>>


\* C16: an iteration whose consumer keeps asking ends; when it ends without
\* the ordering error every input item has been yielded exactly once, in
\* order, and the tie buffer is empty.
C16_Terminates ==
    /\ <>Ended
    /\ [](Done => /\ values(1) = sequence
                  /\ drawn[1] = <<>>
                  /\ tie_started[1] = NoRank
                  /\ raised[1] = "None")

\* a final tie group flushed by the sentinel, unranked items around it
C16_Witness ==
    /\ Done /\ Natural /\ key = "score"
    /\ scores = <<None, 1, 1, None>>
    /\ values(1) = <<1, 2, 3, 4>>
    /\ drawn[1] = <<>>


\* the k-th call of the strategy: its start, its length, the output
\* position after which its group is yielded, and its trailing value
CallStart(k) == calls[1][k][1]
CallLength(k) == calls[1][k][2]
GroupEnd(k) == calls[1][k][3] + CallLength(k)
Trailing(k) == Strategy(strategy, CallStart(k), CallLength(k))[CallLength(k) + 1]

\* the pairs yielded at the output positions a..b are all unranked
Unranked(a, b) == \A q \in a..b : q <= Len(out[1]) => out[1][q][1] = NoRank

\* C17: once the tie group of the k-th strategy call has been yielded, the
\* rank counter is the trailing value of that call until the next ranked
\* item is yielded; the first ranked item after the group is yielded with
\* that value, or, when it begins another tie group, that value is the
\* start of the next strategy call.
C17_TrailingIsNextRank ==
    \A k \in 1..Len(calls[1]) :
        /\ (/\ k = Len(calls[1])
            /\ pc[1] # "flush" \/ gen[1] = <<>>
            /\ Unranked(GroupEnd(k) + 1, Len(out[1])))
              => rank[1] = Trailing(k)
        /\ \A p \in (GroupEnd(k) + 1)..Len(out[1]) :
              (out[1][p][1] # NoRank /\ Unranked(GroupEnd(k) + 1, p - 1)) =>
                  IF k < Len(calls[1]) /\ calls[1][k + 1][3] < p
                  THEN CallStart(k + 1) = Trailing(k)
                  ELSE out[1][p][1] = Trailing(k)
        /\ (k < Len(calls[1])
            /\ Unranked(GroupEnd(k) + 1, calls[1][k + 1][3]))
              => CallStart(k + 1) = Trailing(k)

\* a tie group followed by an untied item
C17_Witness ==
    /\ Done /\ Natural /\ strategy = "DENSE" /\ start = 1
    /\ scores = <<2, 2, 2, 1>>
    /\ calls[1] = <<<<IntRank(1), 3, 0>>>>
    /\ out[1][4][1] = IntRank(2)


\* C18: the ranks yielded for every run are the first values of the
\* strategy called with the rank counter at which the run begins and the
\* length of the run: those of a tie group the values of its strategy
\* call, that of an untied item yielded at counter r the first value of
\* strategy(r, 1).
C18_EveryRunDelegated ==
    /\ \A k \in 1..Len(calls[1]) :
          \A x \in 1..CallLength(k) :
              calls[1][k][3] + x <= Len(out[1]) =>
                  out[1][calls[1][k][3] + x][1]
                      = Strategy(strategy, CallStart(k), CallLength(k))[x]
    /\ pc[1] = "yielded" =>
          out[1][Len(out[1])][1] = Strategy(strategy, rank[1], 1)[1]

\* a <= b and a < b for ranks
RankLeq(a, b) == a[1] * b[2] <= b[1] * a[2]
RankLess(a, b) == a[1] * b[2] < b[1] * a[2]

\* C19: on a sorted input without None scores the ranks yielded never
\* decrease, and an item with a strictly lower score than an earlier item
\* gets a strictly higher rank than that item.
C19_RanksMonotone ==
    (Natural /\ NoNone /\ SortedSeq(scores)) =>
        \A p, q \in 1..Len(out[1]) :
            p < q =>
                /\ RankLeq(RankAt(p), RankAt(q))
                /\ scores[q] < scores[p] => RankLess(RankAt(p), RankAt(q))


\* the item read last is neither yielded nor buffered yet
Pending == IF nread[1] > 0 /\ right[1] # Final THEN 1 ELSE 0

\* C20: the items read are the items yielded, the items in the tie buffer
\* and at most the one item read last (and, where the ordering error was
\* raised, the left item it was raised for); the tie buffer only holds
\* items that tie with the item read last, so a group is yielded as soon as
\* an item with another score or the end of the input is read, and an
\* untied item as soon as its successor is read.
C20_OneItemLookahead ==
    /\ pc[1] # "raised" =>
          nread[1] = Len(out[1]) + Len(drawn[1]) + Pending
    /\ pc[1] = "raised" =>
          nread[1] = Len(out[1]) + Len(drawn[1]) + 2
    /\ pc[1] \in {"loop", "yielded", "done"} =>
          \A x \in 1..Len(drawn[1]) :
              /\ right[1] # Final
              /\ Cmp(Score(drawn[1][x]), right_score[1]) = 0
    /\ pc[1] = "yielded" => drawn[1] = <<>>

\* two items of a tie group buffered, the third just read, none yielded
C20_Witness ==
    /\ pc[1] = "loop" /\ Natural
    /\ scores = <<1, 1, 1, 0>>
    /\ nread[1] = 3 /\ Len(drawn[1]) = 2 /\ out[1] = <<>>

====
